---- MODULE Spec2Model ----
(***************************************************************************)
(* Model of the SLIK OJK extractor (slik_extractor.py, slik_master.py).    *)
(*                                                                         *)
(* Text is a sequence of one-character strings, so that offsets, slices,   *)
(* str.find, str.startswith and the regular expressions of the source are  *)
(* computed character by character.  Offsets in the definitions that model *)
(* Python code are Python's (0-based); sequence indexes are 1-based.       *)
(***************************************************************************)
EXTENDS Integers, Sequences, FiniteSets, TLC

VARIABLES
    program,        \* the function or script that runs
    pc,             \* its position
    pelapor_full,   \* split_bank_cabang: its argument
    split_result,   \* split_bank_cabang: the returned (bank, cabang)
    text,           \* extract_field: the window
    label,          \* extract_field: the label
    terminators,    \* extract_field: the terminator list (or None)
    value,          \* extract_field: the returned value
    full_text,      \* extract_credit_blocks: the document
    bank_headers,   \* extract_credit_blocks: header_re matches
    headings,       \* extract_credit_blocks: (position, label) list
    i,              \* extract_credit_blocks: loop index (0-based)
    blocks,         \* extract_credit_blocks: the locals of each loop iteration so far
    records,        \* extract_credit_blocks / write_xlsx / process: record list
    sheet,          \* write_xlsx: the worksheet rows written so far
    saved,          \* files written: sequence of [path, rows]
    folder,         \* the input files, in os.listdir order
    f,              \* slik_master: index of the file being processed
    all_records,    \* slik_master: the combined record list
    pages_text,     \* process: the text of the pages read
    debitur,        \* process / write_xlsx: the debtor name
    nomor_laporan,  \* process: the report identifier
    printed         \* the outcome messages printed

splitVars == << pelapor_full, split_result >>

fieldVars == << text, label, terminators, value >>

blockVars == << full_text, bank_headers, headings, i, blocks >>

xlsxVars == << sheet, saved, debitur >>

runVars == << folder, f, all_records, pages_text, nomor_laporan, printed >>

vars == << program, pc, splitVars, fieldVars, blockVars, records, xlsxVars, runVars >>

(***************************************************************************)
(* Characters and Python's str methods.                                    *)
(***************************************************************************)
UpperSeq == << "A", "B", "C", "D", "E", "F", "G", "H", "I", "J", "K", "L", "M",
               "N", "O", "P", "Q", "R", "S", "T", "U", "V", "W", "X", "Y", "Z" >>

LowerSeq == << "a", "b", "c", "d", "e", "f", "g", "h", "i", "j", "k", "l", "m",
               "n", "o", "p", "q", "r", "s", "t", "u", "v", "w", "x", "y", "z" >>

Upper == { UpperSeq[k] : k \in 1..26 }

Lower == { LowerSeq[k] : k \in 1..26 }

Digit == { "0", "1", "2", "3", "4", "5", "6", "7", "8", "9" }

\* \s
WS == { " ", "\n", "\t" }

\* \w
Word == Digit \cup Upper \cup Lower \cup { "_" }

\* [\d.,]
Amount == Digit \cup { ".", "," }

NL == { "\n" }

ToLower(c) == IF c \in Upper THEN LowerSeq[CHOOSE k \in 1..26 : UpperSeq[k] = c] ELSE c

ToUpper(c) == IF c \in Lower THEN UpperSeq[CHOOSE k \in 1..26 : LowerSeq[k] = c] ELSE c

\* s.lower()
LowerStr(s) == [ k \in 1..Len(s) |-> ToLower(s[k]) ]

Min(a, b) == IF a < b THEN a ELSE b

Max(a, b) == IF a > b THEN a ELSE b

\* s[a:b] with 0 <= a, b (Python slice, 0-based, end exclusive)
Slice(s, a, b) == SubSeq(s, Min(a, Len(s)) + 1, Min(b, Len(s)))

\* s[a:]
From(s, a) == Slice(s, a, Len(s))

\* s[:b]
Upto(s, b) == Slice(s, 0, b)

\* s.startswith(p)
StartsWith(s, p) == Len(p) <= Len(s) /\ SubSeq(s, 1, Len(p)) = p

\* s.find(t): the lowest 0-based index where t occurs in s, or -1
Find(s, t) ==
    LET at == { k \in 0..(Len(s) - Len(t)) : SubSeq(s, k + 1, k + Len(t)) = t }
    IN  IF at = {} THEN -1 ELSE CHOOSE k \in at : \A j \in at : k <= j

\* s.strip()
Strip(s) ==
    LET ink == { k \in 1..Len(s) : s[k] \notin WS }
    IN  IF ink = {} THEN << >>
        ELSE SubSeq(s, CHOOSE k \in ink : \A j \in ink : k <= j,
                       CHOOSE k \in ink : \A j \in ink : k >= j)

RECURSIVE Collapse(_, _)
\* re.sub(r"\s+", " ", s) from index k on
Collapse(s, k) ==
    IF k > Len(s) THEN << >>
    ELSE IF s[k] \in WS
         THEN IF k > 1 /\ s[k - 1] \in WS THEN Collapse(s, k + 1)
              ELSE << " " >> \o Collapse(s, k + 1)
         ELSE << s[k] >> \o Collapse(s, k + 1)

\* clean(text): whitespace runs collapse to one space, then strip
clean(s) == Strip(Collapse(s, 1))

RECURSIVE SplitFrom(_, _)
\* s.split(): the maximal runs of non-whitespace, in order
SplitFrom(s, k) ==
    IF k > Len(s) THEN << >>
    ELSE IF s[k] \in WS THEN SplitFrom(s, k + 1)
    ELSE LET stops == { j \in k..Len(s) : s[j] \in WS }
             e == IF stops = {} THEN Len(s) + 1
                  ELSE CHOOSE j \in stops : \A j2 \in stops : j <= j2
         IN  << SubSeq(s, k, e - 1) >> \o SplitFrom(s, e)

Split(s) == SplitFrom(s, 1)

RECURSIVE Join(_)
\* " ".join(words)
Join(words) ==
    IF words = << >> THEN << >>
    ELSE IF Len(words) = 1 THEN words[1]
    ELSE words[1] \o << " " >> \o Join(Tail(words))

RECURSIVE JoinLines(_)
\* "\n".join(pages)
JoinLines(pages) ==
    IF pages = << >> THEN << >>
    ELSE IF Len(pages) = 1 THEN pages[1]
    ELSE pages[1] \o << "\n" >> \o JoinLines(Tail(pages))

RECURSIVE ParseInt(_)
\* int(digits)
ParseInt(s) ==
    IF s = << >> THEN 0
    ELSE 10 * ParseInt(SubSeq(s, 1, Len(s) - 1))
         + (CHOOSE d \in 0..9 : ToString(d) = s[Len(s)])

(***************************************************************************)
(* Python's re: a pattern is a sequence of atoms, matched by backtracking  *)
(* in Python's order (a greedy atom tries its longest run first, a lazy    *)
(* one its shortest).  A match is the sequence b of 1-based positions,     *)
(* b[k] where atom k starts and b[Len+1] where the match ends; no match is *)
(* the empty sequence.                                                     *)
(***************************************************************************)
\* a literal; ci: re.IGNORECASE
Lit(s, ci) == [ k |-> "lit", s |-> s, ci |-> ci ]

\* a character class (neg: negated) repeated min..max times (max -1: unbounded)
Cls(in, neg, min, max, lazy, ci) ==
    [ k |-> "cls", in |-> in, neg |-> neg, min |-> min, max |-> max,
      lazy |-> lazy, ci |-> ci ]

\* ^ under re.MULTILINE
Bol == [ k |-> "bol" ]

\* $ under re.MULTILINE
Eol == [ k |-> "eol" ]

\* $ without re.MULTILINE
End == [ k |-> "end" ]

\* (?=alt1|alt2|...)
Ahead(alts) == [ k |-> "ahead", alts |-> alts ]

InCls(a, c) ==
    LET hit == c \in a.in \/ (a.ci /\ (ToLower(c) \in a.in \/ ToUpper(c) \in a.in))
    IN  IF a.neg THEN ~hit ELSE hit

LitAt(a, s, pos) ==
    /\ pos + Len(a.s) - 1 <= Len(s)
    /\ LET got == SubSeq(s, pos, pos + Len(a.s) - 1)
       IN  IF a.ci THEN LowerStr(got) = LowerStr(a.s) ELSE got = a.s

RECURSIVE RunIn(_, _, _, _, _)
\* the least n in lo..hi at which the run of a's class from pos stops, hi the cap
RunIn(a, s, pos, lo, hi) ==
    IF lo >= hi THEN hi
    ELSE LET mid == (lo + hi) \div 2
             l == RunIn(a, s, pos, lo, mid)
         IN  IF l < mid \/ ~InCls(a, s[pos + mid]) THEN l
             ELSE RunIn(a, s, pos, mid + 1, hi)

\* the longest run of a's class at pos, capped by a.max
Run(a, s, pos) ==
    LET left == Max(Len(s) - pos + 1, 0)
        cap == IF a.max < 0 THEN left ELSE Min(a.max, left)
    IN  RunIn(a, s, pos, 0, cap)

RECURSIVE M(_, _, _, _), TryCls(_, _, _, _, _, _)
M(re, s, k, pos) ==
    IF k > Len(re) THEN << pos >>
    ELSE LET a == re[k]
             rest(p) == LET r == M(re, s, k + 1, p)
                        IN  IF r = << >> THEN << >> ELSE << pos >> \o r
         IN  CASE a.k = "lit" -> IF LitAt(a, s, pos) THEN rest(pos + Len(a.s)) ELSE << >>
               [] a.k = "cls" ->
                    LET run == Run(a, s, pos)
                    IN  IF run < a.min THEN << >>
                        ELSE TryCls(re, s, k, pos, IF a.lazy THEN a.min ELSE run, run)
               [] a.k = "bol" -> IF pos = 1 \/ s[pos - 1] = "\n" THEN rest(pos) ELSE << >>
               [] a.k = "eol" -> IF pos = Len(s) + 1 \/ s[pos] = "\n" THEN rest(pos) ELSE << >>
               [] a.k = "end" ->
                    IF pos = Len(s) + 1 \/ (pos = Len(s) /\ s[pos] = "\n")
                    THEN rest(pos) ELSE << >>
               [] a.k = "ahead" ->
                    IF \E x \in 1..Len(a.alts) : M(a.alts[x], s, 1, pos) # << >>
                    THEN rest(pos) ELSE << >>

\* atom k (a class) taking n characters, then the next n in Python's order
TryCls(re, s, k, pos, n, run) ==
    IF n < re[k].min \/ n > run THEN << >>
    ELSE LET r == M(re, s, k + 1, pos + n)
         IN  IF r # << >> THEN << pos >> \o r
             ELSE TryCls(re, s, k, pos, IF re[k].lazy THEN n + 1 ELSE n - 1, run)

RECURSIVE MatchAlts(_, _, _, _)
\* the alternatives of a top-level a|b|c, tried in order at pos
MatchAlts(alts, s, x, pos) ==
    IF x > Len(alts) THEN << >>
    ELSE LET r == M(alts[x], s, 1, pos)
         IN  IF r # << >> THEN r ELSE MatchAlts(alts, s, x + 1, pos)

RECURSIVE SearchIn(_, _, _, _)
\* the first match that starts at a position in lo..hi, positions tried left to right
SearchIn(alts, s, lo, hi) ==
    IF lo > hi THEN << >>
    ELSE IF lo = hi THEN MatchAlts(alts, s, 1, lo)
    ELSE LET mid == (lo + hi) \div 2
             l == SearchIn(alts, s, lo, mid)
         IN  IF l # << >> THEN l ELSE SearchIn(alts, s, mid + 1, hi)

\* re.search from 1-based position pos: the leftmost match
Search(alts, s, pos) == SearchIn(alts, s, pos, Len(s) + 1)

\* m.start() (0-based) and m.end()
MStart(m) == m[1] - 1

MEnd(m) == m[Len(m)] - 1

\* the text of the group spanning atoms a..b of match m
Group(s, m, a, b) == SubSeq(s, m[a], m[b + 1] - 1)

RECURSIVE FindIterOverlapping(_, _, _)
\* a scan that resumes one character after the start of the last match
FindIterOverlapping(alts, s, pos) ==
    LET m == Search(alts, s, pos)
    IN  IF m = << >> THEN << >>
        ELSE << m >> \o FindIterOverlapping(alts, s, m[1] + 1)

RECURSIVE FindIter(_, _, _)
\* re.finditer: successive non-overlapping matches, left to right
FindIter(alts, s, pos) ==
    LET m == Search(alts, s, pos)
    IN  IF m = << >> THEN << >>
        ELSE << m >> \o FindIter(alts, s, IF m[Len(m)] = m[1] THEN m[1] + 1 ELSE m[Len(m)])

(***************************************************************************)
(* Values of a record (a Python dict from column name to value): a str, an *)
(* int, or None.                                                           *)
(***************************************************************************)
None == [ t |-> "None" ]

Str(s) == [ t |-> "str", v |-> s ]

IntV(n) == [ t |-> "int", v |-> n ]

(***************************************************************************)
(* slik_extractor.py: helpers                                              *)
(***************************************************************************)
RECURSIVE TruncateFirstHit(_, _, _)
\* a loop that stops at the first terminator found
TruncateFirstHit(val, terms, k) ==
    IF k > Len(terms) THEN val
    ELSE LET idx == Find(LowerStr(val), LowerStr(terms[k]))
         IN  IF idx >= 0 THEN Upto(val, idx) ELSE TruncateFirstHit(val, terms, k + 1)

RECURSIVE Truncate(_, _, _)
\* the loop over the terminators, from the k-th on
Truncate(val, terms, k) ==
    IF k > Len(terms) THEN val
    ELSE LET idx == Find(LowerStr(val), LowerStr(terms[k]))
         IN  Truncate(IF idx >= 0 THEN Upto(val, idx) ELSE val, terms, k + 1)

\* re.escape(label) + r"\s*(.*)", re.IGNORECASE
FieldPattern(lbl) ==
    << << Lit(lbl, TRUE), Cls(WS, FALSE, 0, -1, FALSE, TRUE), Cls(NL, TRUE, 0, -1, FALSE, TRUE) >> >>

\* terminators None and [] are both falsy; both are the empty sequence here
extract_field(txt, lbl, terms) ==
    LET m == Search(FieldPattern(lbl), txt, 1)
    IN  IF m = << >> THEN << >>
        ELSE clean(Truncate(Strip(Group(txt, m, 3, 3)), terms, 1))

\* re.escape(label) + r"\s*Rp\s*([\d.,]+)", re.IGNORECASE
extract_rp(txt, lbl) ==
    LET m == Search(<< << Lit(lbl, TRUE), Cls(WS, FALSE, 0, -1, FALSE, TRUE),
                          Lit(<<"R", "p">>, TRUE), Cls(WS, FALSE, 0, -1, FALSE, TRUE),
                          Cls(Amount, FALSE, 1, -1, FALSE, TRUE) >> >>, txt, 1)
    IN  IF m = << >> THEN << >>
        ELSE <<"R", "p", " ">> \o Strip(Group(txt, m, 5, 5))

(***************************************************************************)
(* slik_extractor.py: debitur info                                         *)
(***************************************************************************)
\* r"Nama Sesuai Identitas\s+Identitas.*?\n(\S[^\n]+?)\s+NIK", re.DOTALL
NamaPattern1 ==
    << << Lit(<<"N", "a", "m", "a", " ", "S", "e", "s", "u", "a", "i", " ", "I", "d", "e", "n", "t", "i", "t", "a", "s">>, FALSE), Cls(WS, FALSE, 1, -1, FALSE, FALSE),
          Lit(<<"I", "d", "e", "n", "t", "i", "t", "a", "s">>, FALSE), Cls({}, TRUE, 0, -1, TRUE, FALSE),
          Lit(<< "\n" >>, FALSE), Cls(WS, TRUE, 1, 1, FALSE, FALSE),
          Cls(NL, TRUE, 1, -1, TRUE, FALSE), Cls(WS, FALSE, 1, -1, FALSE, FALSE),
          Lit(<<"N", "I", "K">>, FALSE) >> >>

\* r"Nama\s+Jenis Kelamin\s+\d+\n(\S[^\n]+)"
NamaPattern2 ==
    << << Lit(<<"N", "a", "m", "a">>, FALSE), Cls(WS, FALSE, 1, -1, FALSE, FALSE),
          Lit(<<"J", "e", "n", "i", "s", " ", "K", "e", "l", "a", "m", "i", "n">>, FALSE), Cls(WS, FALSE, 1, -1, FALSE, FALSE),
          Cls(Digit, FALSE, 1, -1, FALSE, FALSE), Lit(<< "\n" >>, FALSE),
          Cls(WS, TRUE, 1, 1, FALSE, FALSE), Cls(NL, TRUE, 1, -1, FALSE, FALSE) >> >>

\* r"Nama\s*\n([A-Z ]+)"
NamaPattern3 ==
    << << Lit(<<"N", "a", "m", "a">>, FALSE), Cls(WS, FALSE, 0, -1, FALSE, FALSE),
          Lit(<< "\n" >>, FALSE), Cls(Upper \cup { " " }, FALSE, 1, -1, FALSE, FALSE) >> >>

extract_debitur_name(txt) ==
    LET m1 == Search(NamaPattern1, txt, 1)
        m2 == Search(NamaPattern2, txt, 1)
        m3 == Search(NamaPattern3, txt, 1)
    IN  IF m1 # << >> THEN clean(Group(txt, m1, 6, 7))
        ELSE IF m2 # << >> THEN clean(Group(txt, m2, 7, 8))
        ELSE IF m3 # << >> THEN clean(Group(txt, m3, 4, 4))
        ELSE << >>

\* r"(\d+/IDEB/[\d/]+)"
extract_nomor_laporan(txt) ==
    LET m == Search(<< << Cls(Digit, FALSE, 1, -1, FALSE, FALSE), Lit(<<"/", "I", "D", "E", "B", "/">>, FALSE),
                          Cls(Digit \cup { "/" }, FALSE, 1, -1, FALSE, FALSE) >> >>, txt, 1)
    IN  IF m = << >> THEN << >> ELSE Strip(Group(txt, m, 1, 3))

(***************************************************************************)
(* slik_extractor.py: split_bank_cabang                                    *)
(***************************************************************************)
\* r"\s+(KC[A-Z]*|CAPEM|KANTOR\s+CABANG)(?:\s|$)", re.IGNORECASE: the three
\* alternatives, each ended by \s or by $
MarkerPattern ==
    LET ws1 == Cls(WS, FALSE, 1, -1, FALSE, TRUE)
        one == Cls(WS, FALSE, 1, 1, FALSE, TRUE)
        kc == << ws1, Lit(<<"K", "C">>, TRUE), Cls(Upper, FALSE, 0, -1, FALSE, TRUE) >>
        capem == << ws1, Lit(<<"C", "A", "P", "E", "M">>, TRUE) >>
        kantor == << ws1, Lit(<<"K", "A", "N", "T", "O", "R">>, TRUE), ws1, Lit(<<"C", "A", "B", "A", "N", "G">>, TRUE) >>
    IN  << kc \o << one >>, kc \o << End >>, capem \o << one >>, capem \o << End >>,
           kantor \o << one >>, kantor \o << End >> >>

RECURSIVE RepeatingPrefixKeepsRest(_, _, _)
\* a loop that returns the text after the first copy of the candidate
RepeatingPrefixKeepsRest(pf, words, n) ==
    IF n > Len(words) THEN << >>
    ELSE LET candidate == Join(SubSeq(words, 1, n))
             rest == Strip(From(pf, Len(candidate)))
             cabang == Strip(From(rest, Len(candidate)))
         IN  IF StartsWith(rest, candidate) /\ cabang # << >>
             THEN << candidate, rest >>
             ELSE RepeatingPrefixKeepsRest(pf, words, n + 1)

RECURSIVE RepeatingPrefix(_, _, _)
\* the loop "for i in range(2, len(words) + 1)", from n on: the accepted
\* (candidate, cabang), or the empty sequence when the loop runs out
RepeatingPrefix(pf, words, n) ==
    IF n > Len(words) THEN << >>
    ELSE LET candidate == Join(SubSeq(words, 1, n))
             rest == Strip(From(pf, Len(candidate)))
             cabang == Strip(From(rest, Len(candidate)))
         IN  IF StartsWith(rest, candidate) /\ cabang # << >>
             THEN << candidate, cabang >>
             ELSE RepeatingPrefix(pf, words, n + 1)

\* the fallback: split on the branch office marker
MarkerSplit(pf) ==
    LET m == Search(MarkerPattern, pf, 1)
        before_kc == Strip(Upto(pf, MStart(m)))
        bwords == Split(before_kc)
        half == Len(bwords) \div 2
        first_half == Join(SubSeq(bwords, 1, half))
        second_half == Join(SubSeq(bwords, half + 1, Len(bwords)))
    IN  IF m = << >> THEN << pf, << >> >>
        ELSE << IF half > 0 /\ first_half = second_half THEN first_half ELSE before_kc,
                Strip(From(pf, MStart(m))) >>

split_bank_cabang(pf) ==
    LET r == RepeatingPrefix(pf, Split(pf), 2)
    IN  IF r # << >> THEN r ELSE MarkerSplit(pf)

(***************************************************************************)
(* slik_extractor.py: extract_credit_blocks                                *)
(***************************************************************************)
\* r"(\d{3})\s*-\s*(.+?)\s+Rp\s*([\d.,]+)\s+(\d{2}\s+\w+\s+\d{4})", re.MULTILINE
\* groups: 1 = atom 1, 2 = atom 5, 3 = atom 9, 4 = atoms 11..15
header_re ==
    << << Cls(Digit, FALSE, 3, 3, FALSE, FALSE), Cls(WS, FALSE, 0, -1, FALSE, FALSE),
          Lit(<<"-">>, FALSE), Cls(WS, FALSE, 0, -1, FALSE, FALSE),
          Cls(NL, TRUE, 1, -1, TRUE, FALSE), Cls(WS, FALSE, 1, -1, FALSE, FALSE),
          Lit(<<"R", "p">>, FALSE), Cls(WS, FALSE, 0, -1, FALSE, FALSE),
          Cls(Amount, FALSE, 1, -1, FALSE, FALSE), Cls(WS, FALSE, 1, -1, FALSE, FALSE),
          Cls(Digit, FALSE, 2, 2, FALSE, FALSE), Cls(WS, FALSE, 1, -1, FALSE, FALSE),
          Cls(Word, FALSE, 1, -1, FALSE, FALSE), Cls(WS, FALSE, 1, -1, FALSE, FALSE),
          Cls(Digit, FALSE, 4, 4, FALSE, FALSE) >> >>

FACILITY_SECTIONS ==
    << <<"G", "a", "r", "a", "n", "s", "i", " ", "Y", "a", "n", "g", " ", "D", "i", "b", "e", "r", "i", "k", "a", "n">>,
       <<"I", "r", "r", "e", "v", "o", "c", "a", "b", "l", "e", " ", "L", "/", "C">>,
       <<"S", "u", "r", "a", "t", " ", "B", "e", "r", "h", "a", "r", "g", "a">>,
       <<"F", "a", "s", "i", "l", "i", "t", "a", "s", " ", "L", "a", "i", "n">> >>

\* r"^(" + "|".join(...) + r")\s*$", re.IGNORECASE | re.MULTILINE; group 1 = atom 2
heading_re ==
    [ x \in 1..Len(FACILITY_SECTIONS) |->
        << Bol, Lit(FACILITY_SECTIONS[x], TRUE), Cls(WS, FALSE, 0, -1, FALSE, TRUE), Eol >> ]

\* list(header_re.finditer(full_text))
FindHeaders(txt) == FindIter(header_re, txt, 1)

\* [(m.start(), m.group(1)) for m in heading_re.finditer(full_text)]
FindHeadings(txt) ==
    LET ms == FindIter(heading_re, txt, 1)
    IN  [ x \in 1..Len(ms) |-> << MStart(ms[x]), Group(txt, ms[x], 2, 2) >> ]

\* if x: for a str or None
Truthy(x) == x # None /\ x.v # << >>

RECURSIVE NearestHeadingFirstWins(_, _, _, _, _)
\* a scan that stops at the first heading in range
NearestHeadingFirstWins(hs, k, prev_end, block_start, facility_type) ==
    IF k > Len(hs) THEN facility_type
    ELSE IF prev_end <= hs[k][1] /\ hs[k][1] < block_start THEN Str(hs[k][2])
    ELSE NearestHeadingFirstWins(hs, k + 1, prev_end, block_start, facility_type)

RECURSIVE NearestHeading(_, _, _, _, _)
\* the loop "for hpos, hlabel in headings", from the k-th heading on
NearestHeading(hs, k, prev_end, block_start, facility_type) ==
    IF k > Len(hs) THEN facility_type
    ELSE NearestHeading(hs, k + 1, prev_end, block_start,
                        IF prev_end <= hs[k][1] /\ hs[k][1] < block_start
                        THEN Str(hs[k][2]) ELSE facility_type)

\* a loop over the headers that visits them last to first
HeaderAtReversed(hdrs, n) == hdrs[Len(hdrs) - n]

\* bank_headers[n], n 0-based: hm of "for i, hm in enumerate(bank_headers)"
HeaderAt(hdrs, n) == hdrs[n + 1]

\* bank_headers[n].start()
HStart(hdrs, n) == MStart(HeaderAt(hdrs, n))

BlockStart(hdrs, n) == HStart(hdrs, n)

BlockEnd(txt, hdrs, n) == IF n + 1 < Len(hdrs) THEN HStart(hdrs, n + 1) ELSE Len(txt)

\* a lookup that reaches back to the start of the document
PrevEndStartOfDocument(hdrs, n) == 0

PrevEnd(hdrs, n) == IF n > 0 THEN HStart(hdrs, n - 1) ELSE 0

\* facility_type of block n
FacilityType(hdrs, hs, n) ==
    NearestHeading(hs, 1, PrevEnd(hdrs, n), BlockStart(hdrs, n), None)

\* r"No Rekening.*?Kualitas\s+(\d+\s*-\s*[^\n]+)", re.DOTALL, else
\* r"Kualitas\s+(\d+\s*-\s*\w[^\n]{0,30})"
Kualitas(chunk) ==
    LET m1 == Search(<< << Lit(<<"N", "o", " ", "R", "e", "k", "e", "n", "i", "n", "g">>, FALSE), Cls({}, TRUE, 0, -1, TRUE, FALSE),
                           Lit(<<"K", "u", "a", "l", "i", "t", "a", "s">>, FALSE), Cls(WS, FALSE, 1, -1, FALSE, FALSE),
                           Cls(Digit, FALSE, 1, -1, FALSE, FALSE), Cls(WS, FALSE, 0, -1, FALSE, FALSE),
                           Lit(<<"-">>, FALSE), Cls(WS, FALSE, 0, -1, FALSE, FALSE),
                           Cls(NL, TRUE, 1, -1, FALSE, FALSE) >> >>, chunk, 1)
        m2 == Search(<< << Lit(<<"K", "u", "a", "l", "i", "t", "a", "s">>, FALSE), Cls(WS, FALSE, 1, -1, FALSE, FALSE),
                           Cls(Digit, FALSE, 1, -1, FALSE, FALSE), Cls(WS, FALSE, 0, -1, FALSE, FALSE),
                           Lit(<<"-">>, FALSE), Cls(WS, FALSE, 0, -1, FALSE, FALSE),
                           Cls(Word, FALSE, 1, 1, FALSE, FALSE),
                           Cls(NL, TRUE, 0, 30, FALSE, FALSE) >> >>, chunk, 1)
    IN  IF m1 # << >> THEN clean(Group(chunk, m1, 5, 9))
        ELSE IF m2 # << >> THEN clean(Group(chunk, m2, 3, 8))
        ELSE << >>

\* r"Jenis Penggunaan\s+([A-Za-z][^\n\d]+?)(?=\s+Frekuensi|\s+Nilai|\s+Suku|\s*\n)",
\* else field("Jenis Penggunaan", ["Frekuensi", "\n"])
JenisPenggunaan(chunk) ==
    LET ws1 == Cls(WS, FALSE, 1, -1, FALSE, FALSE)
        m == Search(<< << Lit(<<"J", "e", "n", "i", "s", " ", "P", "e", "n", "g", "g", "u", "n", "a", "a", "n">>, FALSE), ws1,
                          Cls(Upper \cup Lower, FALSE, 1, 1, FALSE, FALSE),
                          Cls(NL \cup Digit, TRUE, 1, -1, TRUE, FALSE),
                          Ahead(<< << ws1, Lit(<<"F", "r", "e", "k", "u", "e", "n", "s", "i">>, FALSE) >>,
                                   << ws1, Lit(<<"N", "i", "l", "a", "i">>, FALSE) >>,
                                   << ws1, Lit(<<"S", "u", "k", "u">>, FALSE) >>,
                                   << Cls(WS, FALSE, 0, -1, FALSE, FALSE), Lit(<< "\n" >>, FALSE) >> >>)
                       >> >>, chunk, 1)
    IN  IF m # << >> THEN clean(Group(chunk, m, 3, 4))
        ELSE extract_field(chunk, <<"J", "e", "n", "i", "s", " ", "P", "e", "n", "g", "g", "u", "n", "a", "a", "n">>, << <<"F", "r", "e", "k", "u", "e", "n", "s", "i">>, << "\n" >> >>)

RECURSIVE DotToComma(_, _)
\* re.sub(r"(\d)\.(\d)", r"\1,\2", s) from index k on
DotToComma(s, k) ==
    IF k > Len(s) THEN << >>
    ELSE IF k + 2 <= Len(s) /\ s[k] \in Digit /\ s[k + 1] = "." /\ s[k + 2] \in Digit
         THEN << s[k], ",", s[k + 2] >> \o DotToComma(s, k + 3)
         ELSE << s[k] >> \o DotToComma(s, k + 1)

\* r"Suku Bunga/Imbalan\s+([\d.,]+\s*%)"
SukuBunga(chunk) ==
    LET m == Search(<< << Lit(<<"S", "u", "k", "u", " ", "B", "u", "n", "g", "a", "/", "I", "m", "b", "a", "l", "a", "n">>, FALSE), Cls(WS, FALSE, 1, -1, FALSE, FALSE),
                          Cls(Amount, FALSE, 1, -1, FALSE, FALSE), Cls(WS, FALSE, 0, -1, FALSE, FALSE),
                          Lit(<<"%">>, FALSE) >> >>, chunk, 1)
    IN  IF m # << >> THEN DotToComma(Strip(Group(chunk, m, 3, 5)), 1) ELSE << >>

\* label + r"\s+(\d{2}\s+\w+\s+\d{4})"
Tanggal(chunk, lbl) ==
    LET m == Search(<< << Lit(lbl, FALSE), Cls(WS, FALSE, 1, -1, FALSE, FALSE),
                          Cls(Digit, FALSE, 2, 2, FALSE, FALSE), Cls(WS, FALSE, 1, -1, FALSE, FALSE),
                          Cls(Word, FALSE, 1, -1, FALSE, FALSE), Cls(WS, FALSE, 1, -1, FALSE, FALSE),
                          Cls(Digit, FALSE, 4, 4, FALSE, FALSE) >> >>, chunk, 1)
    IN  IF m # << >> THEN Strip(Group(chunk, m, 3, 7)) ELSE << >>

\* a count left None when the label is absent
FrekuensiRestrNoneWhenAbsent(chunk, facility_type) ==
    LET m == Search(<< << Lit(<<"F", "r", "e", "k", "u", "e", "n", "s", "i", " ", "R", "e", "s", "t", "r", "u", "k", "t", "u", "r", "i", "s", "a", "s", "i">>, FALSE),
                          Cls(WS, FALSE, 1, -1, FALSE, FALSE),
                          Cls(Digit, FALSE, 1, -1, FALSE, FALSE) >> >>, chunk, 1)
    IN  IF Truthy(facility_type) \/ m = << >> THEN None
        ELSE IntV(ParseInt(Group(chunk, m, 3, 3)))

\* r"Frekuensi Restrukturisasi\s+(\d+)": int for kredit, None for facility rows
FrekuensiRestr(chunk, facility_type) ==
    LET m == Search(<< << Lit(<<"F", "r", "e", "k", "u", "e", "n", "s", "i", " ", "R", "e", "s", "t", "r", "u", "k", "t", "u", "r", "i", "s", "a", "s", "i">>, FALSE),
                          Cls(WS, FALSE, 1, -1, FALSE, FALSE),
                          Cls(Digit, FALSE, 1, -1, FALSE, FALSE) >> >>, chunk, 1)
    IN  IF Truthy(facility_type) THEN None
        ELSE IF m # << >> THEN IntV(ParseInt(Group(chunk, m, 3, 3))) ELSE IntV(0)

COLUMNS ==
    << "Bank (Pelapor)", "Jenis Penggunaan", "Nomor Laporan", "Plafon Awal",
       "Baki Debet", "Suku Bunga/Imbalan", "Tanggal Akad Awal",
       "Tanggal Jatuh Tempo", "Kualitas", "Frekuensi Restrukturisasi" >>

\* the body of the loop over bank_headers: the record of block n (0-based)
BlockRecord(txt, hdrs, hs, n) ==
    LET hm == HeaderAt(hdrs, n)
        chunk == Slice(txt, BlockStart(hdrs, n), BlockEnd(txt, hdrs, n))
        facility_type == FacilityType(hdrs, hs, n)
    IN  [ c \in { COLUMNS[x] : x \in 1..Len(COLUMNS) } |->
            CASE c = "Bank (Pelapor)" -> Str(split_bank_cabang(Strip(Group(txt, hm, 5, 5)))[1])
              [] c = "Jenis Penggunaan" ->
                   IF Truthy(facility_type) THEN facility_type
                   ELSE Str(JenisPenggunaan(chunk))
              [] c = "Nomor Laporan" -> Str(<< >>)
              [] c = "Plafon Awal" -> Str(extract_rp(chunk, <<"P", "l", "a", "f", "o", "n", " ", "A", "w", "a", "l">>))
              [] c = "Baki Debet" -> Str(<<"R", "p", " ">> \o Group(txt, hm, 9, 9))
              [] c = "Suku Bunga/Imbalan" -> Str(SukuBunga(chunk))
              [] c = "Tanggal Akad Awal" -> Str(Tanggal(chunk, <<"T", "a", "n", "g", "g", "a", "l", " ", "A", "k", "a", "d", " ", "A", "w", "a", "l">>))
              [] c = "Tanggal Jatuh Tempo" -> Str(Tanggal(chunk, <<"T", "a", "n", "g", "g", "a", "l", " ", "J", "a", "t", "u", "h", " ", "T", "e", "m", "p", "o">>))
              [] c = "Kualitas" -> Str(Kualitas(chunk))
              [] c = "Frekuensi Restrukturisasi" -> FrekuensiRestr(chunk, facility_type) ]

RECURSIVE BlockRecords(_, _, _, _)
\* the records of blocks n, n+1, ... in loop order
BlockRecords(txt, hdrs, hs, n) ==
    IF n >= Len(hdrs) THEN << >>
    ELSE << BlockRecord(txt, hdrs, hs, n) >> \o BlockRecords(txt, hdrs, hs, n + 1)

\* extract_credit_blocks(full_text) as one call; bank_headers and headings are
\* computed once, as the function's locals are
extract_credit_blocks(txt) ==
    CHOOSE recs \in { IF hdrs = << >> THEN << >> ELSE BlockRecords(txt, hdrs, hs, 0) :
                        hdrs \in { FindHeaders(txt) }, hs \in { FindHeadings(txt) } } : TRUE

(***************************************************************************)
(* slik_extractor.py: write_xlsx.  A worksheet is the sequence of its rows: *)
(* the title row, the header row, then one row of cells per record.  Fonts, *)
(* fills, widths and the date in the title are not modelled.               *)
(***************************************************************************)
\* a cell that keeps None
CellValueKeepsNone(rec, col_name) ==
    IF col_name \in DOMAIN rec THEN rec[col_name] ELSE Str(<< >>)

\* rec.get(col_name, ""), then None -> ""
CellValue(rec, col_name) ==
    LET raw_val == IF col_name \in DOMAIN rec THEN rec[col_name] ELSE Str(<< >>)
    IN  IF raw_val = None THEN Str(<< >>) ELSE raw_val

\* the cells of one data row, in COLUMNS order
DataRow(rec) == [ x \in 1..Len(COLUMNS) |-> CellValue(rec, COLUMNS[x]) ]

TitleRow(deb) == [ title |-> "SLIK OJK - Kredit/Pembiayaan", debitur |-> deb ]

HeaderRow == COLUMNS

\* write_xlsx(records, debitur, out_path) as one call: the rows of the saved sheet
WriteXlsx(recs, deb) ==
    << TitleRow(deb), HeaderRow >> \o [ k \in 1..Len(recs) |-> DataRow(recs[k]) ]

(***************************************************************************)
(* slik_extractor.py: process, and slik_master.py                          *)
(***************************************************************************)
\* page.extract_text(...) or ""
PageText(page) == IF page = None THEN << >> ELSE page.v

\* a guard that never sees an empty list
NoDataIgnored(recs) == FALSE

\* "if not records:" and "if not all_records:"
NoData(recs) == recs = << >>

\* filename.lower().endswith(".pdf")
IsPdf(filename) ==
    /\ Len(filename) >= 4
    /\ SubSeq(LowerStr(filename), Len(filename) - 3, Len(filename)) = <<".", "p", "d", "f">>

\* process: r["Nomor Laporan"] = nomor_laporan
StampProcess(r, nomor) == [ r EXCEPT !["Nomor Laporan"] = Str(nomor) ]

\* a stamp with the two values exchanged
StampMasterSwapped(r, deb, nomor) ==
    [ c \in DOMAIN r \cup { "Nama Debitur", "Nomor Laporan" } |->
        IF c = "Nama Debitur" THEN Str(nomor)
        ELSE IF c = "Nomor Laporan" THEN Str(deb)
        ELSE r[c] ]

\* slik_master: r["Nama Debitur"] = debitur; r["Nomor Laporan"] = nomor_laporan
StampMaster(r, deb, nomor) ==
    [ c \in DOMAIN r \cup { "Nama Debitur", "Nomor Laporan" } |->
        IF c = "Nama Debitur" THEN Str(deb)
        ELSE IF c = "Nomor Laporan" THEN Str(nomor)
        ELSE r[c] ]

(***************************************************************************)
(* The variables a program does not use stay at these values.              *)
(***************************************************************************)
IdleSplit == pelapor_full = << >> /\ split_result = << >>

IdleField == text = << >> /\ label = << >> /\ terminators = << >> /\ value = << >>

IdleBlock ==
    full_text = << >> /\ bank_headers = << >> /\ headings = << >> /\ i = 0 /\ blocks = << >>

IdleXlsx == sheet = << >> /\ saved = << >> /\ debitur = << >>

IdleRun ==
    /\ folder = << >> /\ f = 0 /\ all_records = << >> /\ pages_text = << >>
    /\ nomor_laporan = << >> /\ printed = << >>

RECURSIVE Concats(_, _)
\* the concatenations of at most n members of the set pieces
Concats(pieces, n) ==
    IF n = 0 THEN { << >> }
    ELSE { << >> } \cup { p \o d : p \in pieces, d \in Concats(pieces, n - 1) }

(***************************************************************************)
(* split_bank_cabang on every space-joined string of at most MaxWords      *)
(* words of SplitWords.                                                    *)
(***************************************************************************)
MaxWords == 7

SplitWords == { <<"A">>, <<"A", "B">>, <<"K", "C">> }

RECURSIVE WordLists(_)
WordLists(n) ==
    IF n = 0 THEN { << >> }
    ELSE { << >> } \cup { << w >> \o ws : w \in SplitWords, ws \in WordLists(n - 1) }

InitSplit ==
    /\ program = "split_bank_cabang"
    /\ pc = "start"
    /\ pelapor_full \in { Join(ws) : ws \in WordLists(MaxWords) }
    /\ split_result = << >>
    /\ IdleField /\ IdleBlock /\ records = << >> /\ IdleXlsx /\ IdleRun

SplitBankCabang ==
    /\ program = "split_bank_cabang"
    /\ pc = "start"
    /\ split_result' = split_bank_cabang(pelapor_full)
    /\ pc' = "done"
    /\ UNCHANGED << program, pelapor_full, fieldVars, blockVars, records, xlsxVars, runVars >>

NextSplit == SplitBankCabang

SpecSplit == InitSplit /\ [][NextSplit]_vars

\* the words of the argument
ArgWords == Split(pelapor_full)

\* the argument is X + " " + X + " " + Y with X its first n words and Y non-empty
Doubled(n) ==
    /\ 2 * n < Len(ArgWords)
    /\ SubSeq(ArgWords, 1, n) = SubSeq(ArgWords, n + 1, 2 * n)

DoubledX(n) == Join(SubSeq(ArgWords, 1, n))

DoubledY(n) == Join(SubSeq(ArgWords, 2 * n + 1, Len(ArgWords)))

\* no prefix P of X of two or more words, shorter than X, is followed in the
\* argument by a space and the characters of P again
NoShorterRepeat(n) ==
    \A j \in 2..(n - 1) :
        LET P == Join(SubSeq(ArgWords, 1, j))
        IN  ~StartsWith(From(pelapor_full, Len(P) + 1), P)

MaxWindow == 5

FieldChars == { "L", "a", "b", " ", "\n" }

RECURSIVE Windows(_)
Windows(n) ==
    IF n = 0 THEN { << >> }
    ELSE { << >> } \cup { << c >> \o w : c \in FieldChars, w \in Windows(n - 1) }

FieldLabels == { <<"l">>, <<"L", "a">> }

TermLists ==
    { << >>, << <<"b">> >>, << <<"b">>, <<"a", "b">> >>, << <<"a", "b">>, <<"b">> >>, << <<"A">>, <<" ", "b">> >> }

InitField ==
    /\ program = "extract_field"
    /\ pc = "start"
    /\ text \in Windows(MaxWindow)
    /\ label \in FieldLabels
    /\ terminators \in TermLists
    /\ value = << >>
    /\ IdleSplit /\ IdleBlock /\ records = << >> /\ IdleXlsx /\ IdleRun

ExtractField ==
    /\ program = "extract_field"
    /\ pc = "start"
    /\ value' = extract_field(text, label, terminators)
    /\ pc' = "done"
    /\ UNCHANGED << program, text, label, terminators, splitVars, blockVars, records,
                    xlsxVars, runVars >>

NextField == ExtractField

SpecField == InitField /\ [][NextField]_vars

\* the 1-based positions where label occurs in text, whatever the case
LabelAt ==
    { p \in 1..(Len(text) - Len(label) + 1) :
        LowerStr(SubSeq(text, p, p + Len(label) - 1)) = LowerStr(label) }

FirstLabel == CHOOSE p \in LabelAt : \A q \in LabelAt : p <= q

\* everything after the first occurrence of label, to the end of the window
AfterLabel == SubSeq(text, FirstLabel + Len(label), Len(text))

\* what follows the label once whitespace is skipped, to the end of that line,
\* stripped
LineAfterLabel ==
    LET inks == { q \in (FirstLabel + Len(label))..Len(text) : text[q] \notin WS }
        q0 == IF inks = {} THEN Len(text) + 1 ELSE CHOOSE q \in inks : \A r \in inks : q <= r
        nls == { q \in q0..Len(text) : text[q] = "\n" }
        e == IF nls = {} THEN Len(text) + 1 ELSE CHOOSE q \in nls : \A r \in nls : q <= r
    IN  Strip(SubSeq(text, q0, e - 1))

\* the 0-based positions of v where terminator t occurs, whatever the case
TermAt(v, t) ==
    { c \in 0..(Len(v) - Len(t)) :
        LowerStr(SubSeq(v, c + 1, c + Len(t))) = LowerStr(t) }

AnyTermAt(v) == UNION { TermAt(v, terminators[x]) : x \in 1..Len(terminators) }

\* v cut at the earliest position where any terminator occurs
CutEarliest(v) ==
    IF AnyTermAt(v) = {} THEN v
    ELSE Upto(v, CHOOSE c \in AnyTermAt(v) : \A d \in AnyTermAt(v) : c <= d)

\* no terminator occurrence begins strictly inside another one
NoNesting(v) ==
    \A x, y \in 1..Len(terminators) :
        \A c \in TermAt(v, terminators[x]) : \A d \in TermAt(v, terminators[y]) :
            ~(c < d /\ d < c + Len(terminators[x]))

\* C4 as stated: the value is the normalized text after the first occurrence of
\* label up to the end of the window, cut at the earliest terminator occurrence,
\* and empty when label does not occur; for every window and terminator list.
C4_ToEndOfWindow ==
    pc = "done" =>
        value = IF LabelAt = {} THEN << >> ELSE clean(CutEarliest(AfterLabel))

\* C4 amended: the value is empty when label does not occur; otherwise it is the
\* normalized text that follows the first occurrence of label, after the
\* whitespace behind it, up to the end of that line, cut at a terminator
\* occurrence that leaves no terminator in it: the earliest occurrence of any
\* terminator, unless a terminator occurrence begins strictly inside another.
C4_ToEndOfLine ==
    pc = "done" =>
        IF LabelAt = {} THEN value = << >>
        ELSE LET v == LineAfterLabel
             IN  \E c \in 0..Len(v) :
                    /\ value = clean(Upto(v, c))
                    /\ AnyTermAt(Upto(v, c)) = {}
                    /\ c = Len(v) \/ c \in AnyTermAt(v)
                    /\ NoNesting(v) => Upto(v, c) = CutEarliest(v)

\* a value cut at a terminator, in a window that goes on after the value's line
C4_Witness ==
    /\ pc = "done"
    /\ LabelAt # {}
    /\ AnyTermAt(LineAfterLabel) # {}
    /\ clean(AfterLabel) # clean(LineAfterLabel)
    /\ value = clean(CutEarliest(LineAfterLabel))
    /\ value # << >>

(***************************************************************************)
(* extract_credit_blocks, one action per step, on every document made of   *)
(* at most MaxPieces of the lines below.                                   *)
(***************************************************************************)
MaxPieces == 3

DocPieces ==
    { <<"0", "0", "1", " ", "-", " ", "A", "B", " ", "A", "B", " ", "K", "C", " ", "R", "p", " ", "5", " ", "0", "1", " ", "J", "a", "n", " ", "2", "0", "2", "0", "\n">>,
      <<"0", "0", "2", " ", "-", "\n", "I", "r", "r", "e", "v", "o", "c", "a", "b", "l", "e", " ", "L", "/", "C", "\n", "R", "p", " ", "1", " ", "0", "2", " ", "F", "e", "b", " ", "2", "0", "2", "1", "\n">>,
      <<"0", "0", "3", " ", "-", " ", "0", "0", "4", " ", "-", " ", "A", " ", "R", "p", " ", "3", " ", "0", "3", " ", "M", "a", "r", " ", "2", "0", "2", "2", "\n">>,
      <<"S", "u", "r", "a", "t", " ", "B", "e", "r", "h", "a", "r", "g", "a", "\n">>,
      <<"f", "a", "s", "i", "l", "i", "t", "a", "s", " ", "l", "a", "i", "n", " ", "\n">>,
      <<"F", "r", "e", "k", "u", "e", "n", "s", "i", " ", "R", "e", "s", "t", "r", "u", "k", "t", "u", "r", "i", "s", "a", "s", "i", " ", "2", "\n">> }

InitBlocks ==
    /\ program = "extract_credit_blocks"
    /\ pc = "start"
    /\ full_text \in Concats(DocPieces, MaxPieces)
    /\ bank_headers = << >> /\ headings = << >> /\ i = 0 /\ blocks = << >>
    /\ records = << >>
    /\ IdleSplit /\ IdleField /\ IdleXlsx /\ IdleRun

\* step 1, with the early return when there is no header
LocateHeaders ==
    /\ program = "extract_credit_blocks"
    /\ pc = "start"
    /\ bank_headers' = FindHeaders(full_text)
    /\ pc' = IF bank_headers' = << >> THEN "done" ELSE "headings"
    /\ UNCHANGED << program, full_text, headings, i, blocks, records,
                    splitVars, fieldVars, xlsxVars, runVars >>

\* step 2
LocateHeadings ==
    /\ program = "extract_credit_blocks"
    /\ pc = "headings"
    /\ headings' = FindHeadings(full_text)
    /\ records' = << >>
    /\ i' = 0
    /\ pc' = "loop"
    /\ UNCHANGED << program, full_text, bank_headers, blocks,
                    splitVars, fieldVars, xlsxVars, runVars >>

\* steps 3 and 4: one iteration of the loop over bank_headers
Block ==
    /\ program = "extract_credit_blocks"
    /\ pc = "loop"
    /\ i < Len(bank_headers)
    /\ blocks' = Append(blocks,
                        [ block_start |-> BlockStart(bank_headers, i),
                          block_end |-> BlockEnd(full_text, bank_headers, i),
                          prev_end |-> PrevEnd(bank_headers, i),
                          facility_type |-> FacilityType(bank_headers, headings, i) ])
    /\ records' = Append(records, BlockRecord(full_text, bank_headers, headings, i))
    /\ i' = i + 1
    /\ UNCHANGED << program, pc, full_text, bank_headers, headings,
                    splitVars, fieldVars, xlsxVars, runVars >>

\* return records
ReturnRecords ==
    /\ program = "extract_credit_blocks"
    /\ pc = "loop"
    /\ i = Len(bank_headers)
    /\ pc' = "done"
    /\ UNCHANGED << program, blockVars, records, splitVars, fieldVars, xlsxVars, runVars >>

NextBlocks == LocateHeaders \/ LocateHeadings \/ Block \/ ReturnRecords

SpecBlocks == InitBlocks /\ [][NextBlocks]_vars

\* start offset (0-based) of the k-th header match, k from 1
HeaderOffset(k) == bank_headers[k][1] - 1

\* end offset of the k-th header match
HeaderEnd(k) == bank_headers[k][Len(bank_headers[k])] - 1

\* start of the header before the k-th, or 0 for the first
PrecedingOffset(k) == IF k > 1 THEN HeaderOffset(k - 1) ELSE 0

\* the headings at offsets p with PrecedingOffset(k) <= p < HeaderOffset(k)
Qualifying(k) ==
    { h \in 1..Len(headings) :
        PrecedingOffset(k) <= headings[h][1] /\ headings[h][1] < HeaderOffset(k) }

\* the text owned by the k-th header
ChunkOf(k) ==
    SubSeq(full_text, HeaderOffset(k) + 1,
           IF k < Len(bank_headers) THEN HeaderOffset(k + 1) ELSE Len(full_text))

\* C1: block k gets the label of the qualifying heading with the greatest
\* offset (the closest one), and no category when no heading qualifies.
C1_NearestHeading ==
    \A k \in 1..Len(blocks) :
        LET q == Qualifying(k)
        IN  IF q = {} THEN blocks[k].facility_type = None
            ELSE LET h == CHOOSE h \in q : \A g \in q : headings[g][1] <= headings[h][1]
                 IN  /\ blocks[k].facility_type = Str(headings[h][2])
                     /\ records[k]["Jenis Penggunaan"] = Str(headings[h][2])

\* a block with two qualifying headings of different labels
C1_Witness ==
    /\ pc = "done"
    /\ \E k \in 1..Len(blocks) : \E g, h \in Qualifying(k) : headings[g][2] # headings[h][2]

\* C2 as stated: a block has the default category exactly when no heading
\* occurs at any smaller offset of the document than its header.
C2_NoHeadingAnywhereBefore ==
    \A k \in 1..Len(blocks) :
        blocks[k].facility_type = None
            <=> ~(\E h \in 1..Len(headings) : headings[h][1] < HeaderOffset(k))

\* C2 amended: a block has the default category exactly when no heading occurs
\* at a smaller offset than its header that is at or after the start of the
\* previous header (at any smaller offset, for the first header).
C2_NoHeadingSincePreviousHeader ==
    \A k \in 1..Len(blocks) :
        /\ blocks[k].facility_type = None <=> Qualifying(k) = {}
        /\ blocks[k].facility_type = None
              <=> records[k]["Frekuensi Restrukturisasi"] # None

\* a default block after which a heading came earlier in the document
C2_Witness ==
    /\ pc = "done"
    /\ \E k \in 1..Len(blocks) :
          /\ blocks[k].facility_type = None
          /\ \E h \in 1..Len(headings) : headings[h][1] < HeaderOffset(k)

\* C5: one record per header match, the k-th record from the k-th match in
\* increasing start offset; no record, and a normal return, without matches.
C5_OneRecordPerHeader ==
    /\ Len(records) = Len(blocks)
    /\ Len(records) <= Len(bank_headers)
    /\ pc = "done" => Len(records) = Len(bank_headers)
    /\ \A k \in 1..Len(records) :
          /\ blocks[k].block_start = HeaderOffset(k)
          /\ records[k]["Baki Debet"]
                = Str(<< "R", "p", " " >>
                      \o SubSeq(full_text, bank_headers[k][9], bank_headers[k][10] - 1))
          /\ k > 1 => HeaderOffset(k - 1) < HeaderOffset(k)
    /\ bank_headers = << >> /\ pc # "start" => pc = "done" /\ records = << >>

\* two records with different balances have been returned
C5_Witness ==
    /\ pc = "done"
    /\ Len(records) >= 2
    /\ records[1]["Baki Debet"] # records[2]["Baki Debet"]

\* C6: the restructuring frequency is None exactly for a block with a special
\* category, and otherwise an integer >= 0, 0 when the label is absent from the
\* block; without headings every record is default with an integer.
C6_FrekuensiRestrukturisasi ==
    \A k \in 1..Len(records) :
        LET fr == records[k]["Frekuensi Restrukturisasi"]
            absent == Find(ChunkOf(k), <<"F", "r", "e", "k", "u", "e", "n", "s", "i", " ", "R", "e", "s", "t", "r", "u", "k", "t", "u", "r", "i", "s", "a", "s", "i">>) = -1
        IN  /\ fr = None <=> blocks[k].facility_type # None
            /\ fr # None => fr.t = "int" /\ fr.v >= 0
            /\ fr # None /\ absent => fr.v = 0
            /\ headings = << >> => blocks[k].facility_type = None /\ fr # None

\* a special block whose text holds a count, and a default block without the label
C6_Witness ==
    /\ pc = "done"
    /\ \E k \in 1..Len(records) :
          /\ records[k]["Frekuensi Restrukturisasi"] = None
          /\ Find(ChunkOf(k), <<"F", "r", "e", "k", "u", "e", "n", "s", "i", " ", "R", "e", "s", "t", "r", "u", "k", "t", "u", "r", "i", "s", "a", "s", "i">>) >= 0
    /\ \E k \in 1..Len(records) :
          /\ records[k]["Frekuensi Restrukturisasi"] = IntV(0)
          /\ Find(ChunkOf(k), <<"F", "r", "e", "k", "u", "e", "n", "s", "i", " ", "R", "e", "s", "t", "r", "u", "k", "t", "u", "r", "i", "s", "a", "s", "i">>) = -1

\* C9: header matches are strictly increasing and do not overlap; the windows
\* are non-empty, disjoint and contiguous, start at the first header and end at
\* the end of the document.
C9_WindowsPartition ==
    /\ \A k \in 1..(Len(bank_headers) - 1) :
          HeaderOffset(k) < HeaderOffset(k + 1) /\ HeaderEnd(k) <= HeaderOffset(k + 1)
    /\ \A k \in 1..Len(blocks) :
          /\ blocks[k].block_start = HeaderOffset(k)
          /\ blocks[k].block_start < blocks[k].block_end
          /\ k < Len(bank_headers) => blocks[k].block_end = HeaderOffset(k + 1)
          /\ k = Len(bank_headers) => blocks[k].block_end = Len(full_text)
          /\ \A j \in 1..(k - 1) : blocks[j].block_end <= blocks[k].block_start

\* two windows after some text that belongs to no block
C9_Witness ==
    /\ pc = "done"
    /\ Len(blocks) >= 2
    /\ blocks[1].block_start > 0
    /\ blocks[Len(blocks)].block_end = Len(full_text)

(***************************************************************************)
(* write_xlsx, one action per step, on every list of at most MaxRows of    *)
(* the records below.                                                      *)
(***************************************************************************)
MaxRows == 3

\* a default-category record as extract_credit_blocks builds it
KreditRecord ==
    [ c \in { COLUMNS[x] : x \in 1..Len(COLUMNS) } |->
        IF c = "Frekuensi Restrukturisasi" THEN IntV(2)
        ELSE IF c = "Nomor Laporan" THEN Str(<< >>)
        ELSE Str(<< "x" >>) ]

SampleRecords ==
    { KreditRecord,
      [ KreditRecord EXCEPT !["Frekuensi Restrukturisasi"] = None,
                            !["Jenis Penggunaan"] = Str(<<"S", "u", "r", "a", "t", " ", "B", "e", "r", "h", "a", "r", "g", "a">>) ],
      [ c \in { "Bank (Pelapor)", "Baki Debet" } |-> Str(<< "y" >>) ],
      [ c \in { "Kualitas", "Nama Debitur", "Plafon Awal" } |->
          IF c = "Plafon Awal" THEN None ELSE Str(<< "z" >>) ],
      << >> }

RECURSIVE RecordLists(_)
RecordLists(n) ==
    IF n = 0 THEN { << >> }
    ELSE { << >> } \cup { << r >> \o rs : r \in SampleRecords, rs \in RecordLists(n - 1) }

InitXlsx ==
    /\ program = "write_xlsx"
    /\ pc = "start"
    /\ records \in RecordLists(MaxRows)
    /\ debitur \in { << >>, <<"B", "U", "D", "I">> }
    /\ sheet = << >> /\ saved = << >>
    /\ IdleSplit /\ IdleField /\ IdleBlock /\ IdleRun

\* the title row and the header row
WriteTitleAndHeader ==
    /\ program = "write_xlsx"
    /\ pc = "start"
    /\ sheet' = << TitleRow(debitur), HeaderRow >>
    /\ pc' = "rows"
    /\ UNCHANGED << program, records, saved, debitur, splitVars, fieldVars, blockVars, runVars >>

\* one iteration of "for row_idx, rec in enumerate(records, start=3)"
WriteDataRow ==
    /\ program = "write_xlsx"
    /\ pc = "rows"
    /\ Len(sheet) - 2 < Len(records)
    /\ sheet' = Append(sheet, DataRow(records[Len(sheet) - 1]))
    /\ UNCHANGED << program, pc, records, saved, debitur, splitVars, fieldVars, blockVars, runVars >>

\* wb.save(out_path)
SaveWorkbook ==
    /\ program = "write_xlsx"
    /\ pc = "rows"
    /\ Len(sheet) - 2 = Len(records)
    /\ saved' = Append(saved, [ path |-> "out_path", records |-> records, rows |-> sheet ])
    /\ pc' = "done"
    /\ UNCHANGED << program, records, sheet, debitur, splitVars, fieldVars, blockVars, runVars >>

NextXlsx == WriteTitleAndHeader \/ WriteDataRow \/ SaveWorkbook

SpecXlsx == InitXlsx /\ [][NextXlsx]_vars

\* the cell the schema asks for: the record's value, or "" when it is None or absent
ProjectedCell(rec, c) ==
    IF c \in DOMAIN rec /\ rec[c] # None THEN rec[c] ELSE Str(<< >>)

\* the rows written so far project the records, in order and in schema order
RowsProject ==
    /\ Len(COLUMNS) = 10
    /\ Len(sheet) >= 2 => sheet[2] = COLUMNS
    /\ Len(sheet) <= Len(records) + 2
    /\ pc = "done" => /\ Len(sheet) = Len(records) + 2
                      /\ Len(saved) = 1 /\ saved[1].rows = sheet
    /\ \A r \in 3..Len(sheet) :
          /\ Len(sheet[r]) = Len(COLUMNS)
          /\ \A x \in 1..Len(COLUMNS) :
                sheet[r][x] = ProjectedCell(records[r - 2], COLUMNS[x])

\* C8: every cell is the record's value for its column, or "" when the value is
\* None or the key is absent; rows are in record order, columns in schema
\* order; the records are not modified.
C8_PureProjection == [](RowsProject) /\ [][records' = records]_vars

\* a saved sheet with a row whose record lacks a key and a row whose record holds None
C8_Witness ==
    /\ pc = "done"
    /\ Len(records) >= 2
    /\ \E k \in 1..Len(records) : "Kualitas" \notin DOMAIN records[k]
    /\ \E k \in 1..Len(records) :
          /\ "Frekuensi Restrukturisasi" \in DOMAIN records[k]
          /\ records[k]["Frekuensi Restrukturisasi"] = None
          /\ sheet[k + 2][10] = Str(<< >>)

(***************************************************************************)
(* The two scripts: slik_extractor.py's process on one file, slik_master.py *)
(* on a folder of at most MaxFiles of the files below, in any listing      *)
(* order.  A file is its name and the text of its pages (None for a page   *)
(* without text).                                                          *)
(***************************************************************************)
MaxFiles == 3

SampleFiles ==
    { [ name |-> <<"a", ".", "p", "d", "f">>,
        pages |-> << Str(<<"1", "/", "I", "D", "E", "B", "/", "2", "\n", "N", "a", "m", "a", "\n", "B", "U", "D", "I", "\n">>),
                     Str(<<"0", "0", "1", " ", "-", " ", "A", "B", " ", "A", "B", " ", "K", "C", " ", "R", "p", " ", "5", " ", "0", "1", " ", "J", "a", "n", " ", "2", "0", "2", "0", "\n", "F", "r", "e", "k", "u", "e", "n", "s", "i", " ", "R", "e", "s", "t", "r", "u", "k", "t", "u", "r", "i", "s", "a", "s", "i", " ", "2", "\n">>) >> ],
      [ name |-> <<"b", ".", "P", "D", "F">>,
        pages |-> << Str(<<"N", "a", "m", "a", "\n", "S", "I", "T", "I", "\n", "7", "/", "I", "D", "E", "B", "/", "8", "\n", "S", "u", "r", "a", "t", " ", "B", "e", "r", "h", "a", "r", "g", "a", "\n", "0", "0", "1", " ", "-", " ", "A", "B", " ", "A", "B", " ", "K", "C", " ", "R", "p", " ", "5", " ", "0", "1", " ", "J", "a", "n", " ", "2", "0", "2", "0", "\n", "0", "0", "3", " ", "-", " ", "0", "0", "4", " ", "-", " ", "A", " ", "R", "p", " ", "3", " ", "0", "3", " ", "M", "a", "r", " ", "2", "0", "2", "2">>) >> ],
      [ name |-> <<"c", ".", "p", "d", "f">>,
        pages |-> << Str(<<"9", "/", "I", "D", "E", "B", "/", "9", "\n", "N", "a", "m", "a", "\n", "T", "O", "N", "O", "\n">>) >> ],
      [ name |-> <<"d", ".", "t", "x", "t">>,
        pages |-> << Str(<<"0", "0", "2", " ", "-", "\n", "I", "r", "r", "e", "v", "o", "c", "a", "b", "l", "e", " ", "L", "/", "C", "\n", "R", "p", " ", "1", " ", "0", "2", " ", "F", "e", "b", " ", "2", "0", "2", "1", "\n">>) >> ],
      [ name |-> <<"e", ".", "p", "d", "f">>,
        pages |-> << None, None >> ] }

RECURSIVE Listings(_)
\* the listings of at most n files, no file twice
Listings(n) ==
    IF n = 0 THEN { << >> }
    ELSE { << >> } \cup
         UNION { { << x >> \o l : l \in { m \in Listings(n - 1) :
                                                \A k \in 1..Len(m) : m[k] # x } } :
                 x \in SampleFiles }

InitRun ==
    /\ \/ program = "slik_extractor" /\ folder \in { << x >> : x \in SampleFiles }
       \/ program = "slik_master" /\ folder \in Listings(MaxFiles)
    /\ pc = "start"
    /\ f = 0 /\ all_records = << >> /\ pages_text = << >>
    /\ nomor_laporan = << >> /\ printed = << >>
    /\ full_text = << >> /\ bank_headers = << >> /\ headings = << >> /\ i = 0 /\ blocks = << >>
    /\ records = << >>
    /\ IdleSplit /\ IdleField /\ IdleXlsx

\* process: the page-by-page reading
ReadPages ==
    /\ program = "slik_extractor"
    /\ pc = "start"
    /\ pages_text' = [ k \in 1..Len(folder[1].pages) |-> PageText(folder[1].pages[k]) ]
    /\ pc' = "parse"
    /\ UNCHANGED << program, folder, f, all_records, nomor_laporan, printed, records,
                    splitVars, fieldVars, blockVars, xlsxVars >>

\* process: parse
Parse ==
    /\ program = "slik_extractor"
    /\ pc = "parse"
    /\ full_text' = JoinLines(pages_text)
    /\ debitur' = extract_debitur_name(full_text')
    /\ nomor_laporan' = extract_nomor_laporan(full_text')
    /\ records' = extract_credit_blocks(full_text')
    /\ pc' = "extracted"
    /\ UNCHANGED << program, folder, f, all_records, pages_text, printed, sheet, saved,
                    bank_headers, headings, i, blocks, splitVars, fieldVars >>

\* process: "if not records:" warn and return
WarnNoData ==
    /\ program = "slik_extractor"
    /\ pc = "extracted"
    /\ NoData(records)
    /\ printed' = Append(printed, "Tidak ditemukan blok Kredit/Pembiayaan.")
    /\ pc' = "done"
    /\ UNCHANGED << program, folder, f, all_records, pages_text, nomor_laporan, records,
                    splitVars, fieldVars, blockVars, xlsxVars >>

\* process: stamp the records, write the sheet
WriteOutput ==
    /\ program = "slik_extractor"
    /\ pc = "extracted"
    /\ ~NoData(records)
    /\ records' = [ k \in 1..Len(records) |-> StampProcess(records[k], nomor_laporan) ]
    /\ sheet' = WriteXlsx(records', debitur)
    /\ saved' = Append(saved, [ path |-> "out_path", records |-> records', rows |-> sheet' ])
    /\ printed' = Append(printed, "Selesai")
    /\ pc' = "done"
    /\ UNCHANGED << program, folder, f, all_records, pages_text, nomor_laporan, debitur,
                    splitVars, fieldVars, blockVars >>

\* slik_master: one iteration of "for filename in os.listdir(folder_path)" on a .pdf
ProcessFile ==
    /\ program = "slik_master"
    /\ pc = "start"
    /\ f < Len(folder)
    /\ IsPdf(folder[f + 1].name)
    /\ pages_text' = [ k \in 1..Len(folder[f + 1].pages) |-> PageText(folder[f + 1].pages[k]) ]
    /\ full_text' = JoinLines(pages_text')
    /\ debitur' = extract_debitur_name(full_text')
    /\ nomor_laporan' = extract_nomor_laporan(full_text')
    /\ records' = [ k \in 1..Len(extract_credit_blocks(full_text')) |->
                      StampMaster(extract_credit_blocks(full_text')[k], debitur', nomor_laporan') ]
    /\ all_records' = all_records \o records'
    /\ f' = f + 1
    /\ UNCHANGED << program, pc, folder, printed, sheet, saved,
                    bank_headers, headings, i, blocks, splitVars, fieldVars >>

\* slik_master: a file that is no .pdf
SkipFile ==
    /\ program = "slik_master"
    /\ pc = "start"
    /\ f < Len(folder)
    /\ ~IsPdf(folder[f + 1].name)
    /\ f' = f + 1
    /\ UNCHANGED << program, pc, folder, all_records, pages_text, nomor_laporan, printed,
                    records, splitVars, fieldVars, blockVars, xlsxVars >>

\* slik_master: "if not all_records:"
MasterNoData ==
    /\ program = "slik_master"
    /\ pc = "start"
    /\ f = Len(folder)
    /\ NoData(all_records)
    /\ printed' = Append(printed, "Tidak ada data ditemukan.")
    /\ pc' = "done"
    /\ UNCHANGED << program, folder, f, all_records, pages_text, nomor_laporan, records,
                    splitVars, fieldVars, blockVars, xlsxVars >>

\* slik_master: pd.DataFrame(all_records).to_excel("MASTER_SLIK.xlsx")
MasterWrite ==
    /\ program = "slik_master"
    /\ pc = "start"
    /\ f = Len(folder)
    /\ ~NoData(all_records)
    /\ saved' = Append(saved, [ path |-> "MASTER_SLIK.xlsx", records |-> all_records,
                                rows |-> all_records ])
    /\ printed' = Append(printed, "MASTER_SLIK.xlsx berhasil dibuat!")
    /\ pc' = "done"
    /\ UNCHANGED << program, folder, f, all_records, pages_text, nomor_laporan, records,
                    sheet, debitur, splitVars, fieldVars, blockVars >>

NextRun ==
    \/ ReadPages \/ Parse \/ WarnNoData \/ WriteOutput
    \/ ProcessFile \/ SkipFile \/ MasterNoData \/ MasterWrite

SpecRun == InitRun /\ [][NextRun]_vars

\* the text of a file's document
DocText(file) == JoinLines([ k \in 1..Len(file.pages) |-> PageText(file.pages[k]) ])

\* the name ends in .pdf, whatever the case
PdfName(file) ==
    LET n == Len(file.name)
    IN  n >= 4 /\ LowerStr(SubSeq(file.name, n - 3, n)) = << ".", "p", "d", "f" >>

\* the files of the run that are read: the argument of process, the .pdf
\* files of the folder
FilesRead ==
    { k \in 1..Len(folder) : program = "slik_extractor" \/ PdfName(folder[k]) }

\* how many header matches the files read hold
HeadersFound(k) == Len(FindHeaders(DocText(folder[k])))

IsNoDataMessage(m) ==
    m \in { "Tidak ditemukan blok Kredit/Pembiayaan.", "Tidak ada data ditemukan." }

\* C7: a run that finds no record prints the no-data message and writes no
\* file; a run that finds records writes its output once; no file is ever
\* written from an empty record list.
C7_NoOutputWithoutData ==
    /\ Len(saved) <= 1
    /\ \A k \in 1..Len(saved) : saved[k].records # << >>
    /\ pc = "done" =>
          IF \A k \in FilesRead : HeadersFound(k) = 0
          THEN saved = << >> /\ Len(printed) = 1 /\ IsNoDataMessage(printed[1])
          ELSE /\ Len(saved) = 1
               /\ \A k \in 1..Len(printed) : ~IsNoDataMessage(printed[k])

\* the folder script has ended without data after reading two .pdf files
C7_Witness ==
    /\ pc = "done"
    /\ program = "slik_master"
    /\ Cardinality(FilesRead) >= 2
    /\ saved = << >>
    /\ printed = << "Tidak ada data ditemukan." >>

RECURSIVE StampedRecords(_, _)
\* the records of the files folder[k..n], .pdf files only, each with the debtor
\* name and report identifier of its own document
StampedRecords(k, n) ==
    IF k > n THEN << >>
    ELSE LET doc == DocText(folder[k])
             rs == extract_credit_blocks(doc)
             own == [ j \in 1..Len(rs) |->
                        ("Nama Debitur" :> Str(extract_debitur_name(doc)))
                        @@ ("Nomor Laporan" :> Str(extract_nomor_laporan(doc)))
                        @@ rs[j] ]
         IN  (IF PdfName(folder[k]) THEN own ELSE << >>) \o StampedRecords(k + 1, n)

\* the records process writes for its file: each with the file's report identifier
ProcessRecords ==
    LET doc == DocText(folder[1])
        rs == extract_credit_blocks(doc)
    IN  [ j \in 1..Len(rs) |->
            ("Nomor Laporan" :> Str(extract_nomor_laporan(doc))) @@ rs[j] ]

\* C10: after any number of files the combined list is the concatenation, in
\* processing order, of each document's records in extraction order, each with
\* the report identifier and debtor name of its own document; the records
\* process writes carry the report identifier of its document.
C10_BatchAggregation ==
    /\ program = "slik_extractor" =>
          \A k \in 1..Len(saved) : saved[k].records = ProcessRecords
    /\ program = "slik_master" =>
        /\ all_records = StampedRecords(1, f)
        /\ \A k \in 1..Len(saved) : saved[k].records = StampedRecords(1, Len(folder))

\* the records of two documents with different debtors, written in one table
C10_Witness ==
    /\ program = "slik_master"
    /\ pc = "done"
    /\ Len(saved) = 1
    /\ Len(all_records) >= 3
    /\ all_records[1]["Nama Debitur"] # all_records[Len(all_records)]["Nama Debitur"]
    /\ all_records[1]["Nomor Laporan"] # all_records[Len(all_records)]["Nomor Laporan"]

(***************************************************************************)
(* Every program.                                                          *)
(***************************************************************************)
Init == InitSplit \/ InitField \/ InitBlocks \/ InitXlsx \/ InitRun

Next == NextSplit \/ NextField \/ NextBlocks \/ NextXlsx \/ NextRun

Spec == Init /\ [][Next]_vars
====
